---- MODULE Spec2Model ----
(***************************************************************************)
(* Model of zangief's TranslateValidator (validator.py): the weights file, *)
(* the selection of the miners to query, one validation step, the          *)
(* validation loop and the weight submission.                              *)
(***************************************************************************)
EXTENDS Integers, Sequences, FiniteSets, TLC

VARIABLES
    modules,            \* the subnet's module map, as get_map_modules returns it
    file,               \* contents of weights.json: entries <<key string, record>>
    self_uid,           \* self.uid
    client,             \* self.client: which CommuneClient object is in use
    pc,                 \* validation_loop: "loop", or "terminated" by an exception
    remaining_miners,   \* first value returned by the last get_miners_to_query
    miners_to_query,    \* second value returned by the last get_miners_to_query
    snapshot,           \* the miners that the last get_miners_to_query was given
    miner_answers,      \* answers collected by the last dispatch
    votes,              \* the client.vote calls of the last step, in order
    outcome,            \* how the last step ended
    file0,              \* the weights file when the last step started
    trail,              \* batch sizes of the persisted steps since the file was last emptied
    dispatched,         \* uid -> times the uid was in a batch since the file was last emptied
    futures             \* executor.map: the state of the call made for each batch member

vars == <<modules, file, self_uid, client, pc, remaining_miners, miners_to_query,
          snapshot, miner_answers, votes, outcome, file0, trail, dispatched, futures>>

----------------------------------------------------------------------------
(* Bounds of the model *)

NumModules == 10        \* modules registered in the subnet
MaxScore == 2           \* raw scores are drawn from 1..MaxScore
MaxClient == 1          \* CommuneClient objects created after the first one
MaxVoted == 4           \* records in the weights file handed to set_weights on its own
MaxRaw == 3             \* their raw scores are drawn from 1..MaxRaw
MaxBatch == 3           \* batch members handed to the executor on its own
MaxCycleSteps == 4      \* steps of one cycle that the running loop is followed for
PartModules == 9        \* miners handed to get_miners_to_query on its own

(* Program constants *)

BatchSizeOffByOne == 8 + 1      \* Faulty variant: the loop stops one miner late.
BatchSize == 8          \* "if counter == 8: break"
Budget == 1000          \* "score * 1000 / scores"

----------------------------------------------------------------------------
(* Python values.  A dict key is an int or a str; 5 and "5" are different   *)
(* keys.  None is a value of its own.                                      *)

IntKey(n) == [t |-> "int", n |-> n]
StrKey(n) == [t |-> "str", n |-> n]
None == [t |-> "none", n |-> 0]

\* str(k): the decimal string of an int, a str unchanged
str(k) == [t |-> "str", n |-> k.n]

\* A dict is a sequence of items [k, v] with distinct keys, in insertion order.
DictHas(d, k) == \E i \in 1..Len(d) : d[i].k = k
DictGet(d, k) == d[CHOOSE i \in 1..Len(d) : d[i].k = k].v
\* d[k] = v: replaces the value in place, or appends a new item
DictSet(d, k, v) ==
    IF DictHas(d, k)
    THEN [i \in 1..Len(d) |-> IF d[i].k = k THEN [k |-> k, v |-> v] ELSE d[i]]
    ELSE Append(d, [k |-> k, v |-> v])
\* del d[k]
DictDel(d, k) == SelectSeq(d, LAMBDA it : it.k # k)

RECURSIVE DictUpdate(_, _)
\* for key, data in src.items(): d[key] = data
DictUpdate(d, src) ==
    IF src = <<>> THEN d
    ELSE DictUpdate(DictSet(d, Head(src).k, Head(src).v), Tail(src))

----------------------------------------------------------------------------
(* The weights file (weights_io).  The file is JSON: every key is written  *)
(* as a string, and reading builds a dict from the items in file order.    *)

write_weight_file(d) == [i \in 1..Len(d) |-> [k |-> str(d[i].k), v |-> d[i].v]]

read_weight_file(f) == DictUpdate(<<>>, f)

----------------------------------------------------------------------------
(* get_miners_to_query *)

\* Faulty variant: the record is deleted from the dict but the file is not written back.
PurgeNotWritten(f, k) == f

\* lines 270-273: drop the record of key k from the file
PurgeRecord(f, k) ==
    LET current_weights == read_weight_file(f)
    IN  IF DictHas(current_weights, k)
        THEN write_weight_file(DictDel(current_weights, k))
        ELSE f

\* Faulty variant: the record is looked up under the int uid, not under str(uid).
IsScoredIntKey(scored_miners, m) ==
    /\ DictHas(scored_miners, IntKey(m.uid))
    /\ m.key = DictGet(scored_miners, IntKey(m.uid)).ss58

\* line 268-269, 275: the miner has a record and the record carries its key
IsScored(scored_miners, m) ==
    /\ DictHas(scored_miners, str(IntKey(m.uid)))
    /\ m.key = DictGet(scored_miners, str(IntKey(m.uid))).ss58

\* Faulty variant: a record under another key is not told from no record.
IsStaleNever(scored_miners, m) == FALSE

\* line 268-269: the miner has a record and the record carries another key
IsStale(scored_miners, m) ==
    /\ DictHas(scored_miners, str(IntKey(m.uid)))
    /\ m.key # DictGet(scored_miners, str(IntKey(m.uid))).ss58

RECURSIVE ScanMiners(_, _, _, _)
\* the loop of lines 267-283, from position i on; st is the loop's state
ScanMiners(miners, scored_miners, i, st) ==
    IF i > Len(miners) THEN st
    ELSE LET m == miners[i] IN
         IF IsScored(scored_miners, m)
         THEN ScanMiners(miners, scored_miners, i + 1,
                  [st EXCEPT !.remaining =
                      SelectSeq(@, LAMBDA rm : rm.uid # m.uid)])
         ELSE LET st1 == [st EXCEPT
                      !.file = IF IsStale(scored_miners, m)
                               THEN PurgeRecord(@, str(IntKey(m.uid)))
                               ELSE @,
                      !.query = Append(@, m),
                      !.counter = @ + 1]
              IN  IF st1.counter = BatchSize
                  THEN st1
                  ELSE ScanMiners(miners, scored_miners, i + 1, st1)

\* Faulty variant: the miners put in the batch are taken out of remaining.
get_miners_to_query_minus_batch(miners, f) ==
    LET st == ScanMiners(miners, read_weight_file(f), 1,
                  [remaining |-> miners, query |-> <<>>, counter |-> 0, file |-> f])
    IN  [st EXCEPT !.remaining =
            SelectSeq(@, LAMBDA rm : \A i \in 1..Len(st.query) : st.query[i].uid # rm.uid)]

\* Faulty variant: the loop looks at the first 8 miners only.
get_miners_to_query_scans_eight(miners, f) ==
    ScanMiners(SubSeq(miners, 1, IF Len(miners) < BatchSize THEN Len(miners) ELSE BatchSize),
               read_weight_file(f), 1,
               [remaining |-> miners, query |-> <<>>, counter |-> 0, file |-> f])

\* returns the two lists and the file as the purges leave it
get_miners_to_query(miners, f) ==
    ScanMiners(miners, read_weight_file(f), 1,
               [remaining |-> miners, query |-> <<>>, counter |-> 0, file |-> f])

----------------------------------------------------------------------------
(* The subnet's directory *)

ValUid == 1                         \* the uid under which the validator registers
ValKey == "val"                     \* self.key.ss58_address
Signals == {<<0, 0>>, <<1, 0>>, <<0, 1>>}    \* <<incentive, dividends>>
GoodAddress == <<"10.0.0.1", "8000">>        \* the address split at ":"
Addresses == {GoodAddress, <<>>, <<"None", "None">>}

\* get_miner_ip_port: the modules kept as miners
IsMiner(module) ==
    \/ (module.incentive = module.dividends /\ module.dividends = 0)
    \/ module.incentive > module.dividends

get_miner_ip_port(mods) == SelectSeq(mods, IsMiner)

\* client.query_map_key: uid -> ss58 of every module
query_map_key(mods) ==
    [i \in 1..Len(mods) |-> [k |-> IntKey(mods[i].uid), v |-> mods[i].key]]

\* line 332: val_ss58 in modules_keys.values()
IsRegistered(modules_keys) ==
    \E i \in 1..Len(modules_keys) : modules_keys[i].v = ValKey

RECURSIVE ResolveUid(_, _)
\* lines 336-338: self.uid after the loop over modules_keys.items()
ResolveUid(modules_keys, uid) ==
    IF modules_keys = <<>> THEN uid
    ELSE ResolveUid(Tail(modules_keys),
                    IF Head(modules_keys).v = ValKey THEN Head(modules_keys).k ELSE uid)

----------------------------------------------------------------------------
(* Dispatch *)

PyStr(s) == [none |-> FALSE, s |-> s]
PyNone == [none |-> TRUE, s |-> ""]

\* split_ip_port: ip_port is the address split at ":" (<<>> when empty or None)
split_ip_port(ip_port) ==
    IF ip_port = <<>> THEN <<PyNone, PyNone>>
    ELSE IF Len(ip_port) = 2 THEN <<PyStr(ip_port[1]), PyStr(ip_port[2])>>
    ELSE <<PyNone, PyNone>>

Answer == "answer"          \* miner_answer["answer"]
NoAnswer == "None"          \* miner_answer = None
EmptyAnswer == ""           \* return ""
Raised == "raise"           \* an exception leaves the function

\* _get_miner_prediction; answered: the call returns before the timeout
get_miner_prediction(miner_info, answered) ==
    LET parts == split_ip_port(miner_info.address)
        module_ip == parts[1]
        module_port == parts[2]
    IN  IF (~module_ip.none /\ module_ip.s = "None")
           \/ (~module_port.none /\ module_port.s = "None")
        THEN EmptyAnswer
        ELSE IF module_port.none THEN Raised        \* int(None)
        ELSE IF answered THEN Answer ELSE NoAnswer

\* executor.map over miners_to_query; lost: the position whose call fails (0: none)
Dispatch(batch, lost) ==
    [i \in 1..Len(batch) |-> get_miner_prediction(batch[i], i # lost)]

DispatchRaises(answers) == \E i \in 1..Len(answers) : answers[i] = Raised

\* reward.get_scores: the lists of scores the scorer may return for n answers;
\* the first answer gets any score, the others all the lowest or all the highest
ScoreLists(n) ==
    {[i \in 1..n |-> IF i = 1 THEN a ELSE b] : a \in 1..MaxScore, b \in {1, MaxScore}}

----------------------------------------------------------------------------
(* Numbers.  A score or a weight is a fraction [n, d] with d > 0, in lowest *)
(* terms, so that equal numbers are equal values.                          *)

Abs(x) == IF x < 0 THEN -x ELSE x

RECURSIVE GCD(_, _)
GCD(a, b) == IF b = 0 THEN a ELSE GCD(b, a % b)

Frac(n, d) ==
    LET g == GCD(Abs(n), Abs(d))
        sgn == IF d < 0 THEN -1 ELSE 1
    IN  [n |-> sgn * (n \div g), d |-> sgn * (d \div g)]

Num(i) == [n |-> i, d |-> 1]
FAdd(x, y) == Frac(x.n * y.d + y.n * x.d, x.d * y.d)
FSub(x, y) == Frac(x.n * y.d - y.n * x.d, x.d * y.d)
FMul(x, y) == Frac(x.n * y.n, x.d * y.d)
FDiv(x, y) == Frac(x.n * y.d, x.d * y.n)
FLess(x, y) == x.n * y.d < y.n * x.d

\* min(scores), max(scores) of a non-empty list
MinOf(scores) ==
    scores[CHOOSE i \in 1..Len(scores) :
               \A j \in 1..Len(scores) : ~FLess(scores[j], scores[i])]
MaxOf(scores) ==
    scores[CHOOSE i \in 1..Len(scores) :
               \A j \in 1..Len(scores) : ~FLess(scores[i], scores[j])]

RECURSIVE SumOf(_)
SumOf(scores) ==
    IF scores = <<>> THEN Num(0) ELSE FAdd(Head(scores), SumOf(Tail(scores)))

\* dict.values(), dict.keys()
Values(d) == [i \in 1..Len(d) |-> d[i].v]
Keys(d) == [i \in 1..Len(d) |-> d[i].k]

\* {k: v for k, v in zip(ks, vs)}: the keys are distinct
Zip(ks, vs) == [i \in 1..Len(ks) |-> [k |-> ks[i], v |-> vs[i]]]

----------------------------------------------------------------------------
(* Score normalisation and weights *)

\* normalize_scores(scores) with scale=False; scores is not empty
normalize_scores(scores) ==
    LET min_score == MinOf(scores)
        max_score == MaxOf(scores)
    IN  IF min_score = max_score
        THEN [i \in 1..Len(scores) |-> Num(1)]
        ELSE [i \in 1..Len(scores) |->
                 FDiv(FSub(scores[i], min_score), FSub(max_score, min_score))]

\* the squashing of one score: strictly increasing, positive and bounded
Sigmoid(x) == FDiv(FAdd(Num(1), x), FAdd(Num(2), x))

\* sigmoid_rewards(score_dict)
sigmoid_rewards(score_dict) ==
    [i \in 1..Len(score_dict) |->
        [k |-> score_dict[i].k, v |-> Sigmoid(score_dict[i].v)]]

\* Faulty variant: the weight is "scores / (score * 1000)".
WeightedScoresInverse(s_dict) ==
    LET normal_scores == normalize_scores(Values(s_dict))
        score_dict == Zip(Keys(s_dict), normal_scores)
        sigmoided_scores == sigmoid_rewards(score_dict)
        scores == SumOf(Values(sigmoided_scores))
        weighted_scores ==
            [i \in 1..Len(sigmoided_scores) |->
                [k |-> sigmoided_scores[i].k,
                 v |-> FDiv(scores, FMul(sigmoided_scores[i].v, Num(Budget)))]]
    IN  SelectSeq(Zip(Keys(weighted_scores), normalize_scores(Values(weighted_scores))),
                  LAMBDA it : it.v # Num(0))

\* Faulty variant: the entries of weight 0 are kept.
WeightedScoresKeepZero(s_dict) ==
    LET normal_scores == normalize_scores(Values(s_dict))
        score_dict == Zip(Keys(s_dict), normal_scores)
        sigmoided_scores == sigmoid_rewards(score_dict)
        scores == SumOf(Values(sigmoided_scores))
        weighted_scores ==
            [i \in 1..Len(sigmoided_scores) |->
                [k |-> sigmoided_scores[i].k,
                 v |-> FDiv(FMul(sigmoided_scores[i].v, Num(Budget)), scores)]]
    IN  Zip(Keys(weighted_scores), normalize_scores(Values(weighted_scores)))

\* set_weights, lines 435-449: the weights before the validator's uid is removed
WeightedScores(s_dict) ==
    LET normal_scores == normalize_scores(Values(s_dict))
        score_dict == Zip(Keys(s_dict), normal_scores)
        sigmoided_scores == sigmoid_rewards(score_dict)
        scores == SumOf(Values(sigmoided_scores))
        weighted_scores ==
            [i \in 1..Len(sigmoided_scores) |->
                [k |-> sigmoided_scores[i].k,
                 v |-> FDiv(FMul(sigmoided_scores[i].v, Num(Budget)), scores)]]
    IN  SelectSeq(Zip(Keys(weighted_scores), normalize_scores(Values(weighted_scores))),
                  LAMBDA it : it.v # Num(0))

\* set_weights, lines 451-452: "if self.uid is not None and self.uid in weighted_scores"
RemoveSelf(weighted_scores, uid) ==
    IF uid # None /\ DictHas(weighted_scores, uid)
    THEN DictDel(weighted_scores, uid)
    ELSE weighted_scores

\* validate_step, lines 411-416: s_dict[uid] = data['score']
ScoreDict(scores) ==
    [i \in 1..Len(scores) |-> [k |-> scores[i].k, v |-> Num(scores[i].v.score)]]

----------------------------------------------------------------------------
(* validate_step *)

\* lines 381-391: data_to_write[uid] = {"ss58": ss58, "score": score}
DataToWrite(batch, scores) ==
    DictUpdate(<<>>, [i \in 1..Len(batch) |->
        [k |-> IntKey(batch[i].uid),
         v |-> [ss58 |-> batch[i].key, score |-> scores[i]]]])

\* Faulty variant: the file is overwritten with the batch's records alone.
PersistNoMerge(f, data_to_write) == write_weight_file(data_to_write)

\* lines 393-397: merge the batch's records into the file
Persist(f, data_to_write) ==
    write_weight_file(DictUpdate(read_weight_file(f), data_to_write))

\* Faulty variant: the test is "len(remaining_miners) >= 0".
CycleCompleteAlways(remaining) == Len(remaining) >= 0

\* Faulty variant: the test is "len(remaining_miners) <= 8".
CycleCompleteLastBatch(remaining) == Len(remaining) <= BatchSize

\* line 410: the condition under which the step goes on to set_weights
CycleComplete(remaining) == Len(remaining) = 0

\* Faulty variant: the retry is made on the client that failed.
SubmitRetrySameClient(f, uid, cl, vote1, vote2) ==
    LET s_dict == ScoreDict(read_weight_file(f))
        weighted_scores == RemoveSelf(WeightedScores(s_dict), uid)
        call(c, ok) == [client |-> c, uids |-> Keys(weighted_scores),
                        weights |-> Values(weighted_scores), ok |-> ok]
    IN  IF s_dict = <<>>
        THEN [file |-> f, client |-> cl, votes |-> <<>>, pc |-> "terminated",
              outcome |-> "synthesis_error"]         \* min() of an empty sequence
        ELSE IF vote1
        THEN [file |-> write_weight_file(<<>>), client |-> cl,
              votes |-> <<call(cl, TRUE)>>, pc |-> "loop", outcome |-> "submitted"]
        ELSE IF vote2
        THEN [file |-> write_weight_file(<<>>), client |-> cl,
              votes |-> <<call(cl, FALSE), call(cl, TRUE)>>,
              pc |-> "loop", outcome |-> "submitted"]
        ELSE [file |-> f, client |-> cl,
              votes |-> <<call(cl, FALSE), call(cl, FALSE)>>,
              pc |-> "terminated", outcome |-> "vote_error"]

\* set_weights, lines 457-470, and line 420 of validate_step.
\* vote1, vote2: whether the first and the second client.vote return
Submit(f, uid, cl, vote1, vote2) ==
    LET s_dict == ScoreDict(read_weight_file(f))
        weighted_scores == RemoveSelf(WeightedScores(s_dict), uid)
        call(c, ok) == [client |-> c, uids |-> Keys(weighted_scores),
                        weights |-> Values(weighted_scores), ok |-> ok]
    IN  IF s_dict = <<>>
        THEN [file |-> f, client |-> cl, votes |-> <<>>, pc |-> "terminated",
              outcome |-> "synthesis_error"]         \* min() of an empty sequence
        ELSE IF vote1
        THEN [file |-> write_weight_file(<<>>), client |-> cl,
              votes |-> <<call(cl, TRUE)>>, pc |-> "loop", outcome |-> "submitted"]
        ELSE IF vote2
        THEN [file |-> write_weight_file(<<>>), client |-> cl + 1,
              votes |-> <<call(cl, FALSE), call(cl + 1, TRUE)>>,
              pc |-> "loop", outcome |-> "submitted"]
        ELSE [file |-> f, client |-> cl + 1,
              votes |-> <<call(cl, FALSE), call(cl + 1, FALSE)>>,
              pc |-> "terminated", outcome |-> "vote_error"]

\* Faulty variant: the batch's records are written before the scorer has returned.
StepResultPersistsFirst(modules_keys, part, uid, cl, lost, scorer_ok, scores, vote1, vote2) ==
    LET uid1 == ResolveUid(modules_keys, uid)
        answers == Dispatch(part.query, lost)
        f1 == Persist(part.file, DataToWrite(part.query, scores))
        step == [self_uid |-> uid1, remaining |-> part.remaining,
                 query |-> part.query, answers |-> answers]
        stop(o, f) == step @@ [file |-> f, client |-> cl, pc |-> "terminated",
                               votes |-> <<>>, outcome |-> o]
    IN  IF DispatchRaises(answers) THEN stop("dispatch_error", part.file)
        ELSE IF ~scorer_ok THEN stop("scoring_error", f1)
        ELSE IF ~CycleComplete(part.remaining)
        THEN step @@ [file |-> f1, client |-> cl, pc |-> "loop", votes |-> <<>>,
                      outcome |-> "persisted"]
        ELSE step @@ Submit(f1, uid1, cl, vote1, vote2)

\* validate_step from line 356 on, given the directory's keys and the lists
\* and file that get_miners_to_query left (part).  lost: the batch position
\* whose call fails; scorer_ok, scores: what reward.get_scores does; vote1,
\* vote2: what client.vote does.
StepResult(modules_keys, part, uid, cl, lost, scorer_ok, scores, vote1, vote2) ==
    LET uid1 == ResolveUid(modules_keys, uid)
        answers == Dispatch(part.query, lost)
        f1 == Persist(part.file, DataToWrite(part.query, scores))
        step == [self_uid |-> uid1, remaining |-> part.remaining,
                 query |-> part.query, answers |-> answers]
        stop(o) == step @@ [file |-> part.file, client |-> cl, pc |-> "terminated",
                            votes |-> <<>>, outcome |-> o]
    IN  IF DispatchRaises(answers) THEN stop("dispatch_error")
        ELSE IF ~scorer_ok THEN stop("scoring_error")
        ELSE IF ~CycleComplete(part.remaining)
        THEN step @@ [file |-> f1, client |-> cl, pc |-> "loop", votes |-> <<>>,
                      outcome |-> "persisted"]
        ELSE step @@ Submit(f1, uid1, cl, vote1, vote2)

\* Faulty variant: the step of an unregistered validator empties the weights file.
NotRegisteredResets(f, uid, cl) ==
    [file |-> write_weight_file(<<>>), self_uid |-> uid, client |-> cl, pc |-> "loop",
     remaining |-> <<>>, query |-> <<>>, answers |-> <<>>, votes |-> <<>>,
     outcome |-> "not_registered"]

\* lines 332-334: the step of a validator whose key is not in the subnet
NotRegistered(f, uid, cl) ==
    [file |-> f, self_uid |-> uid, client |-> cl, pc |-> "loop", remaining |-> <<>>,
     query |-> <<>>, answers |-> <<>>, votes |-> <<>>, outcome |-> "not_registered"]

\* the outcomes of a step that wrote its batch's records (line 397)
Persisted == {"persisted", "submitted", "synthesis_error", "vote_error"}

\* validation_loop, line 425: one step of the running loop.  "\E x \in {e}"
\* names the value of e; the inputs that the step does not read are not
\* enumerated.
validate_step ==
    /\ pc = "loop"
    /\ \E modules_keys \in {query_map_key(modules)} :
       \E part \in {get_miners_to_query(get_miner_ip_port(modules), file)} :
       \E registered \in {IsRegistered(modules_keys)} :
       \E n \in {IF registered THEN Len(part.query) ELSE 0} :
       \E complete \in {registered /\ CycleComplete(part.remaining)} :
       \E lost \in 0..(IF n = 0 THEN 0 ELSE 1) :
       \E scorer_ok \in (IF registered THEN BOOLEAN ELSE {TRUE}) :
       \E scores \in (IF scorer_ok THEN ScoreLists(n) ELSE {[i \in 1..n |-> 1]}) :
       \E vote1 \in (IF scorer_ok /\ complete THEN BOOLEAN ELSE {TRUE}) :
       \E vote2 \in (IF vote1 THEN {TRUE} ELSE BOOLEAN) :
       \E r \in {IF registered
                 THEN StepResult(modules_keys, part, self_uid, client, lost,
                                 scorer_ok, scores, vote1, vote2)
                 ELSE NotRegistered(file, self_uid, client)} :
          /\ (~vote1 => client < MaxClient)
          /\ file' = r.file
          /\ self_uid' = r.self_uid
          /\ client' = r.client
          /\ pc' = r.pc
          /\ remaining_miners' = r.remaining
          /\ miners_to_query' = r.query
          /\ snapshot' = IF registered THEN get_miner_ip_port(modules) ELSE <<>>
          /\ miner_answers' = r.answers
          /\ votes' = r.votes
          /\ outcome' = r.outcome
          /\ file0' = file
          /\ trail' = IF r.outcome \in Persisted
                      THEN Append(IF outcome = "submitted" THEN <<>> ELSE trail,
                                  Len(r.query))
                      ELSE IF outcome = "submitted" THEN <<>> ELSE trail
          /\ dispatched' = (IF outcome = "submitted" THEN <<>> ELSE dispatched)
                               \o [i \in 1..Len(r.query) |-> r.query[i].uid]
    /\ UNCHANGED <<modules, futures>>

\* Faulty variant: __init__ leaves the weights file as it finds it.
RestartKeepsFile ==
    /\ file' = file
    /\ self_uid' = None
    /\ client' = 0
    /\ pc' = "loop"
    /\ remaining_miners' = <<>>
    /\ miners_to_query' = <<>>
    /\ snapshot' = <<>>
    /\ miner_answers' = <<>>
    /\ votes' = <<>>
    /\ outcome' = "constructed"
    /\ file0' = file
    /\ trail' = <<>>
    /\ dispatched' = <<>>
    /\ UNCHANGED <<modules, futures>>

\* __init__, lines 133-145: the process is started again
Restart ==
    /\ file' = write_weight_file(<<>>)
    /\ self_uid' = None
    /\ client' = 0
    /\ pc' = "loop"
    /\ remaining_miners' = <<>>
    /\ miners_to_query' = <<>>
    /\ snapshot' = <<>>
    /\ miner_answers' = <<>>
    /\ votes' = <<>>
    /\ outcome' = "constructed"
    /\ file0' = file
    /\ trail' = <<>>
    /\ dispatched' = <<>>
    /\ UNCHANGED <<modules, futures>>

----------------------------------------------------------------------------
(* The directory changes between two steps.  A change is made once: a uid   *)
(* passes to another key, a miner stops being one, an address goes bad.    *)

Rotating == {ValUid, 2}         \* uids whose key changes
Leaving == {NumModules}         \* uids whose dividends overtake their incentive
Moving == {2}                   \* uids whose address changes

ChangeModule(i, new) ==
    /\ modules' = [modules EXCEPT ![i] = new]
    /\ UNCHANGED <<file, self_uid, client, pc, remaining_miners, miners_to_query,
                   snapshot, miner_answers, votes, outcome, file0, trail,
                   dispatched, futures>>

\* a uid is taken over by another key
ChangeKey ==
    \E i \in 1..Len(modules) :
        /\ modules[i].uid \in Rotating
        /\ modules[i].key # "b"
        /\ ChangeModule(i, [modules[i] EXCEPT !.key = "b"])

\* a module's dividends overtake its incentive
ChangeSignals ==
    \E i \in 1..Len(modules) :
        /\ modules[i].uid \in Leaving
        /\ IsMiner(modules[i])
        /\ ChangeModule(i, [modules[i] EXCEPT !.incentive = 0, !.dividends = 1])

\* a module registers an address that is not "ip:port"
ChangeAddress ==
    \E i \in 1..Len(modules), address \in Addresses \ {GoodAddress} :
        /\ modules[i].uid \in Moving
        /\ modules[i].address = GoodAddress
        /\ ChangeModule(i, [modules[i] EXCEPT !.address = address])

----------------------------------------------------------------------------
(* The validator running against the subnet *)

Module(uid, key, sig) ==
    [uid |-> uid, key |-> key, incentive |-> sig[1], dividends |-> sig[2],
     address |-> GoodAddress]

\* the subnet at the start: the validator, a miner or not, and the miners
InitialModules(sig) ==
    [i \in 1..NumModules |->
        IF i = ValUid THEN Module(i, ValKey, sig) ELSE Module(i, "a", <<0, 0>>)]

Init ==
    /\ \E sig \in {<<0, 0>>, <<0, 1>>} : modules = InitialModules(sig)
    /\ file = write_weight_file(<<>>)
    /\ self_uid = None
    /\ client = 0
    /\ pc = "loop"
    /\ remaining_miners = <<>>
    /\ miners_to_query = <<>>
    /\ snapshot = <<>>
    /\ miner_answers = <<>>
    /\ votes = <<>>
    /\ outcome = "constructed"
    /\ file0 = <<>>
    /\ trail = <<>>
    /\ dispatched = <<>>
    /\ futures = <<>>

Next ==
    \/ validate_step
    \/ Restart
    \/ ChangeKey
    \/ ChangeSignals
    \/ ChangeAddress

Spec == Init /\ [][Next]_vars

----------------------------------------------------------------------------
(* get_miners_to_query on its own: every list of PartModules miners, in     *)
(* ascending or descending uid order, against every weights file in which  *)
(* each miner has no record, a record with its key, or a record with       *)
(* another key.                                                            *)

RecordStates == {"none", "scored", "stale"}

RECURSIVE FileOf(_, _)
\* the weights file holding the records that status tells, uid 1..n
FileOf(status, n) ==
    IF n = 0 THEN <<>>
    ELSE IF status[n] = "none" THEN FileOf(status, n - 1)
    ELSE Append(FileOf(status, n - 1),
                [k |-> StrKey(n),
                 v |-> [ss58 |-> IF status[n] = "scored" THEN "a" ELSE "b",
                        score |-> 1]])

InitPartition ==
    /\ \E descending \in BOOLEAN :
          modules = [i \in 1..PartModules |->
                        Module(IF descending THEN PartModules + 1 - i ELSE i,
                               "a", <<0, 0>>)]
    /\ \E status \in [1..PartModules -> RecordStates] : file = FileOf(status, PartModules)
    /\ self_uid = None
    /\ client = 0
    /\ pc = "call"
    /\ remaining_miners = <<>>
    /\ miners_to_query = <<>>
    /\ snapshot = <<>>
    /\ miner_answers = <<>>
    /\ votes = <<>>
    /\ outcome = "constructed"
    /\ file0 = <<>>
    /\ trail = <<>>
    /\ dispatched = <<>>
    /\ futures = <<>>

\* line 342: remaining_miners, miners_to_query = self.get_miners_to_query(miners)
Partition ==
    /\ pc = "call"
    /\ \E part \in {get_miners_to_query(get_miner_ip_port(modules), file)} :
          /\ remaining_miners' = part.remaining
          /\ miners_to_query' = part.query
          /\ file' = part.file
    /\ snapshot' = get_miner_ip_port(modules)
    /\ file0' = file
    /\ pc' = "returned"
    /\ outcome' = "partitioned"
    /\ UNCHANGED <<modules, self_uid, client, miner_answers, votes, trail,
                   dispatched, futures>>

NextPartition == Partition

SpecPartition == InitPartition /\ [][NextPartition]_vars

----------------------------------------------------------------------------
(* Properties of get_miners_to_query.  They are stated on the weights file  *)
(* as it was before the call (file0) and on the miners the call was given  *)
(* (snapshot), and read a record's uid whatever the type of its key.       *)

Uids(miners) == {miners[i].uid : i \in 1..Len(miners)}

HasRecord(f, uid) == \E i \in 1..Len(f) : f[i].k.n = uid

\* the file has a record of miner m that carries m's public key
HasCurrentRecord(f, m) ==
    \E i \in 1..Len(f) : f[i].k.n = m.uid /\ f[i].v.ss58 = m.key

\* the file has a record of miner m that carries another public key
HasStaleRecord(f, m) ==
    \E i \in 1..Len(f) : f[i].k.n = m.uid /\ f[i].v.ss58 # m.key

\* the candidates: no record, or a record with a different public key
CandidateSeq(miners, f) == SelectSeq(miners, LAMBDA m : ~HasCurrentRecord(f, m))

\* the number of candidates that precede position i of the list
CandidatesBefore(miners, f, i) == Len(CandidateSeq(SubSeq(miners, 1, i - 1), f))

Min(a, b) == IF a < b THEN a ELSE b

Returned == pc = "returned"

\* C2, as the spec states it: remaining and batch share no worker and their
\* union is exactly the candidate set.
C2_DisjointCover ==
    Returned =>
        /\ Uids(remaining_miners) \cap Uids(miners_to_query) = {}
        /\ Uids(remaining_miners) \cup Uids(miners_to_query)
               = Uids(CandidateSeq(snapshot, file0))

\* C2, amended: the batch is part of remaining, and remaining holds, in
\* snapshot order, every candidate and every covered worker that at least 8
\* candidates precede; so remaining is exactly the candidate set whenever
\* there are fewer than 8 candidates.
C2_RemainingHoldsCandidates ==
    Returned =>
        /\ Uids(miners_to_query) \subseteq Uids(remaining_miners)
        /\ Uids(CandidateSeq(snapshot, file0)) \subseteq Uids(remaining_miners)
        /\ \A i \in 1..Len(snapshot) :
              (snapshot[i].uid \in Uids(remaining_miners)) <=>
                  \/ ~HasCurrentRecord(file0, snapshot[i])
                  \/ CandidatesBefore(snapshot, file0, i) >= 8
        /\ \A i, j \in 1..Len(remaining_miners) :
              i < j => \E a, b \in 1..Len(snapshot) :
                          /\ a < b
                          /\ snapshot[a] = remaining_miners[i]
                          /\ snapshot[b] = remaining_miners[j]
        /\ Len(CandidateSeq(snapshot, file0)) < 8
              => remaining_miners = CandidateSeq(snapshot, file0)

\* C2, witness: 8 candidates are followed by a covered worker, which stays in
\* remaining beside the batch.
C2_Witness ==
    /\ Returned
    /\ Len(miners_to_query) = 8
    /\ \E i \in 1..Len(remaining_miners) :
          HasCurrentRecord(file0, remaining_miners[i])

\* C3: the batch has at most 8 workers and is the first min(8, |candidates|)
\* candidates in snapshot order.
C3_BatchIsFirstCandidates ==
    Returned =>
        /\ Len(miners_to_query) <= 8
        /\ miners_to_query =
               SubSeq(CandidateSeq(snapshot, file0), 1,
                      Min(8, Len(CandidateSeq(snapshot, file0))))

\* C3, witness: more than 8 candidates, some without a record and some with a
\* stale one, and a batch of 8.
C3_Witness ==
    /\ Returned
    /\ Len(CandidateSeq(snapshot, file0)) > 8
    /\ Len(miners_to_query) = 8
    /\ \E i, j \in 1..8 : /\ HasStaleRecord(file0, miners_to_query[i])
                          /\ ~HasRecord(file0, miners_to_query[j].uid)

\* C4, as the spec states it: a worker with a record under its current key is
\* in neither list, whatever its position.
C4_CoveredNeverReturned ==
    Returned =>
        \A i \in 1..Len(snapshot) :
            HasCurrentRecord(file0, snapshot[i]) =>
                /\ snapshot[i].uid \notin Uids(miners_to_query)
                /\ snapshot[i].uid \notin Uids(remaining_miners)

\* C4, amended: a worker with a record under its current key is never in the
\* batch, and it is not in remaining when fewer than 8 candidates precede it
\* in the snapshot.
C4_CoveredNotQueried ==
    Returned =>
        \A i \in 1..Len(snapshot) :
            HasCurrentRecord(file0, snapshot[i]) =>
                /\ snapshot[i].uid \notin Uids(miners_to_query)
                /\ CandidatesBefore(snapshot, file0, i) < 8
                      => snapshot[i].uid \notin Uids(remaining_miners)

\* C4, witness: a covered worker that follows some candidates is left out of
\* both lists.
C4_Witness ==
    /\ Returned
    /\ \E i \in 1..Len(snapshot) :
          /\ HasCurrentRecord(file0, snapshot[i])
          /\ CandidatesBefore(snapshot, file0, i) > 0
          /\ snapshot[i].uid \notin Uids(remaining_miners)
          /\ miners_to_query # <<>>

\* C5, as the spec states it: every worker with a stale record has the record
\* deleted and is in the batch or in remaining.
C5_StalePurged ==
    Returned =>
        \A i \in 1..Len(snapshot) :
            HasStaleRecord(file0, snapshot[i]) =>
                /\ ~HasRecord(file, snapshot[i].uid)
                /\ snapshot[i].uid \in Uids(miners_to_query) \cup Uids(remaining_miners)

\* C5, amended: a worker with a stale record is always in remaining (the
\* stale record never counts as coverage); when fewer than 8 candidates
\* precede it in the snapshot it is in the batch and its record is deleted
\* from the file.
C5_StaleIsCandidate ==
    Returned =>
        \A i \in 1..Len(snapshot) :
            HasStaleRecord(file0, snapshot[i]) =>
                /\ snapshot[i].uid \in Uids(remaining_miners)
                /\ CandidatesBefore(snapshot, file0, i) < 8 =>
                      /\ snapshot[i].uid \in Uids(miners_to_query)
                      /\ ~HasRecord(file, snapshot[i].uid)

\* C5, witness: a stale record was deleted while other records were kept.
C5_Witness ==
    /\ Returned
    /\ \E i \in 1..Len(snapshot) :
          /\ HasStaleRecord(file0, snapshot[i])
          /\ ~HasRecord(file, snapshot[i].uid)
          /\ snapshot[i].uid \in Uids(miners_to_query)
    /\ file # <<>>

----------------------------------------------------------------------------
(* Properties of the validation loop.  After a step, snapshot, file0,       *)
(* miners_to_query, votes and outcome tell what the step saw and did.      *)

AllCovered(miners, f) == \A i \in 1..Len(miners) : HasCurrentRecord(f, miners[i])

\* the step's batch holds every worker that was still unscored at its start
ScoresTheLast(miners, f, batch) ==
    /\ batch # <<>>
    /\ \A i \in 1..Len(miners) :
          HasCurrentRecord(f, miners[i]) \/ miners[i].uid \in Uids(batch)

\* the directory is the one the validator started with
DirectoryUnchanged == \E sig \in Signals : modules = InitialModules(sig)

RECURSIVE CycleTrail(_)
\* the batch sizes of a cycle over n workers that ends with an empty batch
CycleTrail(n) == IF n = 0 THEN <<0>> ELSE <<Min(8, n)>> \o CycleTrail(n - Min(8, n))

\* C1, as the spec states it: the submission runs in the step that scores the
\* last unscored workers, in no earlier step, and leaves the store empty.
C1_SubmitsInLastScoringStep ==
    outcome \in Persisted =>
        /\ ScoresTheLast(snapshot, file0, miners_to_query) => votes # <<>>
        /\ votes # <<>> => ScoresTheLast(snapshot, file0, miners_to_query)
        /\ outcome = "submitted" => file = <<>>

\* C1, amended: the submission runs in the first step that starts with every
\* eligible worker already scored, a step with an empty batch that follows
\* the step scoring the last workers; with 10 workers the batches are 8, 2
\* and 0, and the successful submission (one vote accepted) empties the store.
C1_SubmitsInStepAfterLastScoring ==
    outcome \in Persisted =>
        /\ (votes # <<>> \/ outcome = "synthesis_error") <=> AllCovered(snapshot, file0)
        /\ votes # <<>> => miners_to_query = <<>>
        /\ outcome = "submitted" =>
              /\ file = <<>>
              /\ Cardinality({i \in 1..Len(votes) : votes[i].ok}) = 1
        /\ (outcome = "submitted" /\ DirectoryUnchanged) => trail = CycleTrail(Len(snapshot))

\* C1, witness: 10 eligible workers, batches of 8, 2 and 0, then the store is empty.
C1_Witness ==
    /\ outcome = "submitted"
    /\ Len(snapshot) = 10
    /\ trail = <<8, 2, 0>>
    /\ file = <<>>

\* C6: no uid list handed to client.vote holds the validator's own uid, be it
\* as a number or as its decimal string.
C6_SelfNeverVoted ==
    \A i \in 1..Len(votes) :
        \A j \in 1..Len(votes[i].uids) :
            self_uid # None => votes[i].uids[j].n # self_uid.n

\* C7: no error terminates validation_loop.
C7_LoopNeverTerminates == pc # "terminated"

\* C8, as the spec states it: after the validator is constructed again the
\* store still holds the records it held before.
C8_RecordsSurviveRestart ==
    outcome = "constructed" => file = file0

\* C8, amended: the records persisted by a step are kept by the following
\* steps of the same process, but constructing the validator again empties the
\* store, and the first step on the empty store selects the first 8 eligible
\* workers, scored before or not.
C8_RestartEmptiesStore ==
    /\ outcome = "constructed" => file = <<>>
    /\ outcome = "persisted" =>
          /\ \A i \in 1..Len(snapshot) :
                HasCurrentRecord(file0, snapshot[i]) =>
                    /\ HasCurrentRecord(file, snapshot[i])
                    /\ snapshot[i].uid \notin Uids(miners_to_query)
          /\ \A i \in 1..Len(miners_to_query) : HasCurrentRecord(file, miners_to_query[i])
    /\ (outcome \in Persisted /\ file0 = <<>>) =>
          miners_to_query = SubSeq(snapshot, 1, Min(8, Len(snapshot)))

\* C8, witness: the validator is constructed again in the middle of a cycle.
C8_Witness ==
    /\ outcome = "constructed"
    /\ file0 # <<>>
    /\ file = <<>>

\* C9: vote is called at most twice in a step; the second call is made exactly
\* when the first failed, on a client created after it, with the same uids and
\* weights; when it succeeds the store is emptied and the loop goes on.
C9_RetryOnceOnNewClient ==
    /\ Len(votes) <= 2
    /\ Len(votes) >= 1 => (votes[1].ok <=> Len(votes) = 1)
    /\ Len(votes) = 2 =>
          /\ votes[2].client > votes[1].client
          /\ votes[2].client = client
          /\ votes[2].uids = votes[1].uids
          /\ votes[2].weights = votes[1].weights
          /\ votes[2].ok => (file = <<>> /\ outcome = "submitted" /\ pc = "loop")

\* C9, witness: the first vote failed, the second succeeded, the store is empty.
C9_Witness ==
    /\ Len(votes) = 2
    /\ ~votes[1].ok
    /\ votes[2].ok
    /\ file0 # <<>>
    /\ file = <<>>

\* C10: when both votes fail the store is as it was before the submission and
\* the loop is still running, so that a next tick can submit the same scores.
C10_FailedSubmissionKeepsScores ==
    outcome = "vote_error" =>
        /\ file = file0
        /\ file # <<>>
        /\ pc = "loop"

\* the number of times uid u occurs in the list
Count(uids, u) == Cardinality({i \in 1..Len(uids) : uids[i] = u})

\* every record of f0 is still in f, but for the stale records of the batch
KeptButPurged(f0, f, batch) ==
    /\ \A i \in 1..Len(f) : \E j \in 1..Len(f0) : f[i] = f0[j]
    /\ \A j \in 1..Len(f0) :
          \/ \E i \in 1..Len(f) : f[i] = f0[j]
          \/ \E b \in 1..Len(batch) :
                batch[b].uid = f0[j].k.n /\ batch[b].key # f0[j].v.ss58

\* C13: a step taken while the validator's key is absent from the key map
\* ends as not registered: it leaves the weights file, the client and the
\* loop as they are, selects and queries no miner (hence has no answers to
\* score) and calls vote not at all.
C13_NotRegisteredDoesNothing ==
    [][(/\ ~IsRegistered(query_map_key(modules))
        /\ modules' = modules
        /\ outcome' # "constructed")
       => /\ outcome' = "not_registered"
          /\ file' = file
          /\ miners_to_query' = <<>>
          /\ miner_answers' = <<>>
          /\ votes' = <<>>
          /\ dispatched' = (IF outcome = "submitted" THEN <<>> ELSE dispatched)
          /\ client' = client
          /\ self_uid' = self_uid
          /\ pc' = pc]_vars

\* C13, witness: an unregistered validator's step left a store that holds the
\* record of a miner whose key has changed.
C13_Witness ==
    /\ outcome = "not_registered"
    /\ ~IsRegistered(query_map_key(modules))
    /\ file = file0
    /\ \E i \in 1..Len(modules) : IsMiner(modules[i]) /\ HasStaleRecord(file, modules[i])

\* C14: while the directory is the one the validator started with, no worker
\* is put in a batch twice between two resets of the store, and at a
\* submission every eligible worker has been in a batch exactly once and no
\* other module has.
C14_DispatchedOncePerCycle ==
    DirectoryUnchanged =>
        /\ \A i \in 1..Len(modules) : Count(dispatched, modules[i].uid) <= 1
        /\ outcome \in Persisted =>
              \A i \in 1..Len(snapshot) :
                  Count(dispatched, snapshot[i].uid) =
                      IF HasCurrentRecord(file0, snapshot[i])
                         \/ snapshot[i].uid \in Uids(miners_to_query)
                      THEN 1 ELSE 0
        /\ outcome = "submitted" =>
              \A i \in 1..Len(modules) :
                  Count(dispatched, modules[i].uid) = IF IsMiner(modules[i]) THEN 1 ELSE 0

\* C14, witness: a cycle over 10 eligible workers in three steps, each worker
\* in one batch.
C14_Witness ==
    /\ DirectoryUnchanged
    /\ outcome = "submitted"
    /\ Len(dispatched) = 10
    /\ \A u \in 1..10 : Count(dispatched, u) = 1

\* C16: when the scorer raises, the step ends there: the store holds no record
\* of any member of the batch, every other record is as it was, and vote is
\* not called.
C16_ScorerErrorWritesNothing ==
    outcome = "scoring_error" =>
        /\ \A i \in 1..Len(miners_to_query) : ~HasRecord(file, miners_to_query[i].uid)
        /\ KeptButPurged(file0, file, miners_to_query)
        /\ votes = <<>>

\* C16, witness: the scorer raised on a batch one member of which had a stale
\* record, while the store held the records of earlier batches.
C16_Witness ==
    /\ outcome = "scoring_error"
    /\ file # <<>>
    /\ \E i \in 1..Len(miners_to_query) : HasStaleRecord(file0, miners_to_query[i])

\* C17: the store never holds two records of the same worker id.
C17_OneRecordPerWorker ==
    \A i, j \in 1..Len(file) : file[i].k.n = file[j].k.n => i = j

\* C17, witness: a worker whose key rotated had its record purged and written
\* anew in one step, next to the records of other workers.
C17_Witness ==
    /\ outcome = "persisted"
    /\ Len(file) > 1
    /\ \E i \in 1..Len(miners_to_query) :
          /\ HasStaleRecord(file0, miners_to_query[i])
          /\ HasCurrentRecord(file, miners_to_query[i])

\* C18: vote is called only in a step with an empty batch, at whose start
\* every eligible worker had a record under its current key; a step with a
\* non-empty batch calls vote not at all, does not submit and keeps every
\* record of the store (but the stale ones of its batch), the batch's records
\* added when it gets to persist them.
C18_VoteOnlyOnEmptyBatch ==
    /\ votes # <<>> => (miners_to_query = <<>> /\ AllCovered(snapshot, file0))
    /\ miners_to_query # <<>> =>
          /\ votes = <<>>
          /\ outcome \in {"persisted", "scoring_error", "dispatch_error"}
          /\ \A j \in 1..Len(file0) :
                \/ \E i \in 1..Len(file) : file[i] = file0[j]
                \/ \E b \in 1..Len(miners_to_query) :
                      /\ miners_to_query[b].uid = file0[j].k.n
                      /\ miners_to_query[b].key # file0[j].v.ss58
          /\ outcome = "persisted" =>
                \A b \in 1..Len(miners_to_query) :
                    HasCurrentRecord(file, miners_to_query[b])

\* C18, witness: the step that scored the last unscored workers did not call
\* vote and left the store full.
C18_Witness ==
    /\ outcome = "persisted"
    /\ ScoresTheLast(snapshot, file0, miners_to_query)
    /\ votes = <<>>
    /\ Len(file) = Len(snapshot)

----------------------------------------------------------------------------
(* The submission on its own (validate_step, lines 410-420, and             *)
(* set_weights): every weights file with the records of up to MaxVoted     *)
(* workers and raw scores in 1..MaxRaw, the validator being uid 1.         *)

\* the weights file with a record of score raw[u] for every uid u of 1..n
FileOfScores(raw, n) ==
    [u \in 1..n |-> [k |-> StrKey(u), v |-> [ss58 |-> "a", score |-> raw[u]]]]

InitWeights ==
    /\ \E n \in 0..MaxVoted : \E raw \in [1..n -> 1..MaxRaw] : file = FileOfScores(raw, n)
    /\ modules = <<>>
    /\ self_uid = IntKey(ValUid)
    /\ client = 0
    /\ pc = "call"
    /\ remaining_miners = <<>>
    /\ miners_to_query = <<>>
    /\ snapshot = <<>>
    /\ miner_answers = <<>>
    /\ votes = <<>>
    /\ outcome = "persisted"
    /\ file0 = <<>>
    /\ trail = <<>>
    /\ dispatched = <<>>
    /\ futures = <<>>

\* lines 410-420 with remaining_miners empty and a client whose vote returns
Finalize ==
    /\ pc = "call"
    /\ CycleComplete(remaining_miners)
    /\ \E r \in {Submit(file, self_uid, client, TRUE, TRUE)} :
          /\ file' = r.file
          /\ client' = r.client
          /\ votes' = r.votes
          /\ outcome' = r.outcome
          /\ pc' = IF r.pc = "loop" THEN "returned" ELSE r.pc
    /\ file0' = file
    /\ UNCHANGED <<modules, self_uid, remaining_miners, miners_to_query, snapshot,
                   miner_answers, trail, dispatched, futures>>

NextWeights == Finalize

SpecWeights == InitWeights /\ [][NextWeights]_vars

----------------------------------------------------------------------------
(* The loop running for ever against a directory that does not change: the *)
(* validator and up to NumModules - 1 other modules, at least one eligible *)
(* worker among them, a scorer that returns and a vote that is accepted at *)
(* the first or at the second call.                                        *)

InitLive ==
    /\ \E n \in 1..NumModules, sig \in {<<0, 0>>, <<0, 1>>} :
          /\ modules = SubSeq(InitialModules(sig), 1, n)
          /\ get_miner_ip_port(modules) # <<>>
    /\ file = write_weight_file(<<>>)
    /\ self_uid = None
    /\ client = 0
    /\ pc = "loop"
    /\ remaining_miners = <<>>
    /\ miners_to_query = <<>>
    /\ snapshot = <<>>
    /\ miner_answers = <<>>
    /\ votes = <<>>
    /\ outcome = "constructed"
    /\ file0 = <<>>
    /\ trail = <<>>
    /\ dispatched = <<>>
    /\ futures = <<>>

\* the loop is running and its cycle is still followed
CanStep == pc = "loop" /\ Len(trail) < MaxCycleSteps

\* lines 423-429: the next step of the loop, over a scorer and a vote that
\* succeed; a cycle is followed for MaxCycleSteps steps at most
LiveStep ==
    /\ CanStep
    /\ validate_step
    /\ outcome' \in {"persisted", "submitted"}

NextLive == LiveStep

\* "while True": the loop takes its next step as long as it can.  This is
\* weak fairness of LiveStep, WF_vars(LiveStep), with ENABLED <<LiveStep>>_vars
\* written as the state predicate CanStep: a step with these outcomes exists
\* in every state of this specification in which CanStep holds.
LoopRuns == []<>(~CanStep) \/ []<><<LiveStep>>_vars

SpecLive == InitLive /\ [][NextLive]_vars /\ LoopRuns

----------------------------------------------------------------------------
(* The dispatch on its own (validate_step, lines 368-370): the executor     *)
(* runs _get_miner_prediction for every batch member in a thread of its    *)
(* own, the calls complete in any order, and "[*it]" takes the results.    *)
(* Every batch of up to MaxBatch miners, each with any of the addresses.   *)

PoolSize == 8           \* ThreadPoolExecutor(max_workers=8)

DispatchAddresses == Addresses \cup {<<"10.0.0.1">>}     \* also one without ":"

\* a future: state "queued", "running" (client.call in flight), "done" or
\* "cancelled"; called: client.call was made; answered: it returned in time;
\* result: what _get_miner_prediction returned or that it raised; order: how
\* many futures were done when this one was
Queued == [state |-> "queued", called |-> FALSE, answered |-> FALSE,
           result |-> "pending", order |-> 0]

IsDone(future) == future.state = "done"

NumDone(fs) == Cardinality({i \in 1..Len(fs) : IsDone(fs[i])})

NumRunning(fs) == Cardinality({i \in 1..Len(fs) : fs[i].state = "running"})

InitDispatch ==
    /\ \E n \in 1..MaxBatch : \E address \in [1..n -> DispatchAddresses] :
          miners_to_query =
              [i \in 1..n |-> [Module(i, "a", <<0, 0>>) EXCEPT !.address = address[i]]]
    /\ futures = [i \in 1..Len(miners_to_query) |-> Queued]
    /\ modules = <<>>
    /\ file = <<>>
    /\ self_uid = IntKey(ValUid)
    /\ client = 0
    /\ pc = "map"
    /\ remaining_miners = miners_to_query
    /\ snapshot = miners_to_query
    /\ miner_answers = <<>>
    /\ votes = <<>>
    /\ outcome = "constructed"
    /\ file0 = <<>>
    /\ trail = <<>>
    /\ dispatched = <<>>

DispatchFrame ==
    UNCHANGED <<modules, file, self_uid, client, remaining_miners, miners_to_query,
                snapshot, votes, file0, trail, dispatched>>

\* lines 228-237: a pool thread takes the next queued call and runs it up to
\* client.call; the call that returns or raises before is done at once
BeginCall ==
    /\ pc \in {"map", "shutdown"}
    /\ NumRunning(futures) < PoolSize
    /\ \E i \in 1..Len(futures) :
          /\ futures[i].state = "queued"
          /\ \A j \in 1..(i - 1) : futures[j].state # "queued"
          /\ \E early \in {get_miner_prediction(miners_to_query[i], TRUE)} :
                futures' = [futures EXCEPT ![i] =
                    IF early = Answer
                    THEN [@ EXCEPT !.state = "running", !.called = TRUE]
                    ELSE [@ EXCEPT !.state = "done", !.result = early,
                                   !.order = NumDone(futures) + 1]]
    /\ UNCHANGED <<pc, miner_answers, outcome>>
    /\ DispatchFrame

\* lines 239-252: client.call returns an answer, or times out or raises
EndCall ==
    /\ pc \in {"map", "shutdown"}
    /\ \E i \in 1..Len(futures), answered \in BOOLEAN :
          /\ futures[i].state = "running"
          /\ futures' = [futures EXCEPT ![i] =
                [@ EXCEPT !.state = "done", !.answered = answered,
                          !.result = get_miner_prediction(miners_to_query[i], answered),
                          !.order = NumDone(futures) + 1]]
    /\ UNCHANGED <<pc, miner_answers, outcome>>
    /\ DispatchFrame

\* Faulty variant: the results are taken in the order in which the calls complete.
NextResultAsCompleted(fs, collected) ==
    IF \E i \in 1..Len(fs) : IsDone(fs[i]) /\ fs[i].order = Len(collected) + 1
    THEN CHOOSE i \in 1..Len(fs) : IsDone(fs[i]) /\ fs[i].order = Len(collected) + 1
    ELSE 1

\* executor.map: the iterator yields the results in the order of the batch
NextResult(fs, collected) == Len(collected) + 1

\* line 370, "[*it]": the next result is taken once its call is done; an
\* exception raised by the call is raised again here
TakeResult ==
    /\ pc = "map"
    /\ \E k \in {NextResult(futures, miner_answers)} :
          /\ IsDone(futures[k])
          /\ IF futures[k].result = Raised
             THEN /\ pc' = "shutdown"
                  /\ UNCHANGED <<miner_answers, outcome>>
             ELSE /\ miner_answers' = Append(miner_answers, futures[k].result)
                  /\ pc' = IF Len(miner_answers') = Len(futures) THEN "returned" ELSE "map"
                  /\ outcome' = IF Len(miner_answers') = Len(futures)
                                THEN "dispatched" ELSE outcome
    /\ UNCHANGED futures
    /\ DispatchFrame

\* the exception leaves the "with" block: the calls not yet begun are
\* cancelled, the running ones are waited for, and validate_step ends
Shutdown ==
    /\ pc = "shutdown"
    /\ NumRunning(futures) = 0
    /\ futures' = [i \in 1..Len(futures) |->
                      IF futures[i].state = "queued"
                      THEN [futures[i] EXCEPT !.state = "cancelled"]
                      ELSE futures[i]]
    /\ pc' = "terminated"
    /\ outcome' = "dispatch_error"
    /\ UNCHANGED miner_answers
    /\ DispatchFrame

NextDispatch ==
    \/ BeginCall
    \/ EndCall
    \/ TakeResult
    \/ Shutdown

SpecDispatch == InitDispatch /\ [][NextDispatch]_vars

----------------------------------------------------------------------------
(* Properties of set_weights, stated on the weights file read by the step  *)
(* (file0) and on the uids and weights handed to the first client.vote.    *)

\* the raw score recorded in f for the worker of key k
RawScore(f, k) == f[CHOOSE i \in 1..Len(f) : f[i].k.n = k.n].v.score

RawScores(f) == {f[i].v.score : i \in 1..Len(f)}

\* the position of the worker of key k in the voted uids, 0 when it is absent
Voted(vote, k) ==
    IF \E j \in 1..Len(vote.uids) : vote.uids[j].n = k.n
    THEN CHOOSE j \in 1..Len(vote.uids) : vote.uids[j].n = k.n
    ELSE 0

\* C15: of two voted workers the one with the higher raw score has the
\* strictly higher weight, and voted workers with equal raw scores have equal
\* weights.
C15_WeightsKeepRankOrder ==
    votes # <<>> =>
        \A a, b \in 1..Len(votes[1].uids) :
            LET ra == RawScore(file0, votes[1].uids[a])
                rb == RawScore(file0, votes[1].uids[b])
            IN  /\ ra < rb => FLess(votes[1].weights[a], votes[1].weights[b])
                /\ ra = rb => votes[1].weights[a] = votes[1].weights[b]

\* C15, witness: the vote holds two workers of different raw scores and two of
\* the same raw score.
C15_Witness ==
    /\ votes # <<>>
    /\ \E a, b, c \in 1..Len(votes[1].uids) :
          /\ RawScore(file0, votes[1].uids[a]) < RawScore(file0, votes[1].uids[b])
          /\ FLess(votes[1].weights[a], votes[1].weights[b])
          /\ b # c
          /\ RawScore(file0, votes[1].uids[b]) = RawScore(file0, votes[1].uids[c])

\* C19: when the raw scores are not all equal, no worker of the lowest raw
\* score is voted and every worker of the highest raw score is voted with
\* weight 1; when they are all equal, every worker is voted with weight 1.
C19_MinDroppedMaxOne ==
    votes # <<>> =>
        \A i \in 1..Len(file0) :
            LET raw == file0[i].v.score
                j == Voted(votes[1], file0[i].k)
                lowest == \A r \in RawScores(file0) : raw <= r
                highest == \A r \in RawScores(file0) : raw >= r
            IN  /\ (lowest /\ ~highest) => j = 0
                /\ highest => (j # 0 /\ votes[1].weights[j] = Num(1))

\* C19, witness: two workers share the lowest raw score, two the highest; the
\* vote holds the latter two alone.
C19_Witness ==
    /\ votes # <<>>
    /\ Len(file0) = 4
    /\ Cardinality(RawScores(file0)) = 2
    /\ Len(votes[1].uids) = 2
    /\ \A j \in 1..2 : votes[1].weights[j] = Num(1)

----------------------------------------------------------------------------
(* Properties of the dispatch *)

WellFormed(address) == address = GoodAddress

DispatchOver == pc \in {"returned", "terminated"}

\* C11: the dispatch over a batch with malformed or missing addresses returns,
\* every such member's response is the empty one and no call was made for
\* it, and every other member's response is the one its own call gave.
C11_MalformedGetsEmpty ==
    DispatchOver =>
        /\ pc = "returned"
        /\ Len(miner_answers) = Len(miners_to_query)
        /\ \A i \in 1..Len(miners_to_query) :
              IF WellFormed(miners_to_query[i].address)
              THEN miner_answers[i] = (IF futures[i].answered THEN Answer ELSE NoAnswer)
              ELSE miner_answers[i] = EmptyAnswer /\ ~futures[i].called

\* C12: the dispatch over a batch of n well-formed addresses returns, and only
\* once every call is done; it returns n responses, response i being the
\* answer of call i when that call returned in time and None when it did
\* not, whatever the order of completion.
C12_PositionalResponses ==
    (\A i \in 1..Len(miners_to_query) : WellFormed(miners_to_query[i].address)) =>
        /\ pc # "shutdown" /\ pc # "terminated"
        /\ pc = "returned" =>
              /\ Len(miner_answers) = Len(miners_to_query)
              /\ \A i \in 1..Len(futures) :
                    /\ IsDone(futures[i])
                    /\ futures[i].called
                    /\ miner_answers[i] = futures[i].result
                    /\ miner_answers[i] =
                          (IF futures[i].answered THEN Answer ELSE NoAnswer)
        /\ pc = "map" =>
              \A i \in 1..Len(miner_answers) :
                  IsDone(futures[i]) /\ miner_answers[i] = futures[i].result

\* C12, witness: three calls of which the last completed first and the second
\* timed out; the responses are in batch order.
C12_Witness ==
    /\ pc = "returned"
    /\ Len(miners_to_query) = 3
    /\ \A i \in 1..3 : WellFormed(miners_to_query[i].address)
    /\ futures[3].order = 1
    /\ futures[1].order = 3
    /\ miner_answers = <<Answer, NoAnswer, Answer>>

----------------------------------------------------------------------------
(* Progress of the loop *)

\* C20: against an unchanging directory with at least one eligible worker,
\* the validator registered, and a scorer and a vote that succeed, the loop
\* again and again calls vote and empties the store, and again and again
\* starts a new cycle by persisting a batch; the loop never ends and no cycle
\* takes more steps than the loop is followed for.
C20_SubmitsInEveryCycle ==
    /\ []<>(outcome = "submitted" /\ votes # <<>> /\ file = <<>>)
    /\ []<>(outcome = "persisted" /\ file # <<>>)
    /\ []CanStep

\* C20, witness: a submission over 10 workers, in three steps, of a cycle that
\* follows one whose first vote was refused.
C20_Witness ==
    /\ outcome = "submitted"
    /\ Len(snapshot) = 10
    /\ trail = <<8, 2, 0>>
    /\ client = 1
    /\ Len(votes) = 1
    /\ file = <<>>

====
